---- MODULE Spec2Model ----
(***************************************************************************)
(* Game-state engine of the terminal Wordle clone (src/src/game/mod.rs)    *)
(* and the key handling of its event loop (src/src/main.rs).               *)
(*                                                                         *)
(* Indices are 0-based as in the Rust source: attempts and letter_statuses *)
(* are functions over 0..MAX_ATTEMPTS-1, a status row is a function over   *)
(* 0..WORD_LENGTH-1.  A word (Vec<char> / String) is a TLA+ sequence of    *)
(* one-character strings; At(w, i) reads its i-th char, 0-based.           *)
(***************************************************************************)
EXTENDS Integers, Sequences, FiniteSets, TLC

\* ------------------------------------------------------------ constants

MAX_ATTEMPTS == 6
WORD_LENGTH == 5

\* ---------------------------------------------------------------- bounds

\* The player types only the first NumWords words of WordPool (letter by
\* letter, with deletions); the word source yields one of its first
\* NumTargets words; quit() is called at most MaxQuits times.  NumLetters
\* bounds the alphabet of the exhaustive evaluation specification EvalSpec.
NumWords == 2
NumTargets == 1
NumLetters == 2
MaxQuits == 1

WordPool ==
    << <<"P","R","O","V","A">>,
       <<"A","P","A","R","A">>,
       <<"V","A","P","O","R">>,
       <<"O","R","A","R","A">>,
       <<"R","A","R","O","S">> >>

PoolSize == Len(WordPool)

Min(a, b) == IF a < b THEN a ELSE b

TypedWords == { WordPool[k] : k \in 1..Min(NumWords, PoolSize) }

Targets == { WordPool[k] : k \in 1..Min(NumTargets, PoolSize) }

Letters == { w[k] : w \in TypedWords, k \in 1..WORD_LENGTH }

\* ----------------------------------------------------------------- types

LetterStatus == {"Correct", "Present", "Absent", "Unused"}

GameStatus == {"Playing", "Won", "Lost", "Quitting"}

Rows == 0..(MAX_ATTEMPTS - 1)

Cols == 0..(WORD_LENGTH - 1)

At(w, i) == w[i + 1]

VARIABLES
    attempts,         \* Game.attempts: Vec<Vec<char>>
    letter_statuses,  \* Game.letter_statuses
    current_attempt,  \* Game.current_attempt
    target_word,      \* Game.target_word
    status,           \* Game.status
    should_quit,      \* Game.should_quit
    message,          \* Game.message ("None" for Option::None)
    message_timer,    \* Game.message_timer
    running,          \* the event loop of main has not been left
    panicked,         \* an index went out of bounds: the process aborted
    misses,           \* history: accepted submissions that did not match
    matched,          \* history: some accepted submission matched the target
    quits,            \* history: calls of quit() so far
    saved,            \* history: <<the game as quit() found it, Playing>>,
                      \* until the quit is cancelled; <<>> otherwise
    restarted,        \* history: main has replaced the game by a new one
    trip,             \* history: <<the game before input_letter>> while a
                      \* delete_letter is to follow it at once; <<>> otherwise
    words_file        \* environment: the content of ./data/words.txt

gameVars ==
    <<attempts, letter_statuses, current_attempt, target_word, status,
      should_quit, message, message_timer>>

histVars == <<misses, matched, quits, saved, restarted>>

vars == <<gameVars, running, panicked, histVars, trip, words_file>>

AsciiUpper ==
    <<"A","B","C","D","E","F","G","H","I","J","K","L","M",
      "N","O","P","Q","R","S","T","U","V","W","X","Y","Z">>

AsciiLower ==
    <<"a","b","c","d","e","f","g","h","i","j","k","l","m",
      "n","o","p","q","r","s","t","u","v","w","x","y","z">>

\* ------------------------------------------------------ the word source

\* A line of the word file is a sequence of chars.  The chars beyond ASCII
\* are named by their code point: U+00E9 is the small e with acute, U+00C9
\* the capital one; each takes two bytes in UTF-8.
TwoByteChars == {"U+00E9", "U+00C9"}

Whitespace == {" ", "\t"}

\* char::len_utf8.
len_utf8(ch) == IF ch \in TwoByteChars THEN 2 ELSE 1

RECURSIVE SumBytes(_, _)
SumBytes(w, n) == IF n = 0 THEN 0 ELSE SumBytes(w, n - 1) + len_utf8(w[n])

\* String::len: the length of the string in bytes.
StrLen(w) == SumBytes(w, Len(w))

\* The chars that have another char as upper case, with that char.
UpperTable ==
    [ch \in { AsciiLower[n] : n \in 1..26 } \cup {"U+00E9"} |->
        IF ch = "U+00E9" THEN "U+00C9"
        ELSE AsciiUpper[CHOOSE n \in 1..26 : AsciiLower[n] = ch]]

\* The upper case of one char.
CharToUpper(ch) == IF ch \in DOMAIN UpperTable THEN UpperTable[ch] ELSE ch

\* str::to_uppercase.
to_uppercase(w) == [k \in 1..Len(w) |-> CharToUpper(w[k])]

RECURSIVE trim_start(_)
trim_start(w) ==
    IF w # <<>> /\ Head(w) \in Whitespace THEN trim_start(Tail(w)) ELSE w

RECURSIVE trim_end(_)
trim_end(w) ==
    IF w # <<>> /\ w[Len(w)] \in Whitespace
    THEN trim_end(SubSeq(w, 1, Len(w) - 1))
    ELSE w

\* str::trim.
trim(w) == trim_end(trim_start(w))

\* The filter of load_words_from_file: `word.len() == WORD_LENGTH`.
HasWordLength(word) == StrLen(word) = WORD_LENGTH

\* Game::load_words_from_file.  A file is <<>> when it cannot be opened and
\* <<lines>> otherwise.
load_words_from_file(file) ==
    IF file = <<>> THEN <<>>
    ELSE LET words == [k \in 1..Len(file[1]) |-> to_uppercase(trim(file[1][k]))]
         IN  SelectSeq(words, HasWordLength)

\* The only fallback word of Game::new.
FallbackWord == <<"P","R","O","V","A">>

\* Mutant of ChosenWords: no fallback word, the target is left empty.
ChosenWordsNoFallback(file) ==
    LET words == load_words_from_file(file)
    IN  IF words = <<>> THEN {<<>>}
        ELSE { words[k] : k \in 1..Len(words) }

\* The words `choose` can return in Game::new for a given word file.
ChosenWords(file) ==
    LET words == load_words_from_file(file)
    IN  IF words = <<>> THEN {FallbackWord}
        ELSE { words[k] : k \in 1..Len(words) }

\* ---------------------------------------------------------- construction

\* Game::new: the Game constructed around the chosen target word t.
new(t) ==
    [attempts        |-> [r \in Rows |-> <<>>],
     letter_statuses |-> [r \in Rows |-> [c \in Cols |-> "Unused"]],
     current_attempt |-> 0,
     target_word     |-> t,
     status          |-> "Playing",
     should_quit     |-> FALSE,
     message         |-> "None",
     message_timer   |-> 0]

\* A word file that keeps the word source's contract: the first NumTargets
\* words of WordPool, one per line, in lower case between blanks.
PoolFile ==
    << [k \in 1..Min(NumTargets, PoolSize) |->
          <<" ">> \o [i \in 1..WORD_LENGTH |->
                        AsciiLower[CHOOSE n \in 1..26 :
                                      AsciiUpper[n] = WordPool[k][i]]]
                 \o <<" ", "\t">>] >>

\* `let mut game = Game::new()` of main, with the given word file.
Start(file) ==
    /\ words_file = file
    /\ \E t \in ChosenWords(file) :
          /\ attempts = new(t).attempts
          /\ letter_statuses = new(t).letter_statuses
          /\ current_attempt = new(t).current_attempt
          /\ target_word = new(t).target_word
          /\ status = new(t).status
          /\ should_quit = new(t).should_quit
          /\ message = new(t).message
          /\ message_timer = new(t).message_timer
    /\ running = TRUE
    /\ panicked = FALSE
    /\ misses = 0
    /\ matched = FALSE
    /\ quits = 0
    /\ saved = <<>>
    /\ restarted = FALSE
    /\ trip = <<>>

\* The program started on a well-formed word file.
Init == Start(PoolFile)

\* ------------------------------------------------------------ evaluation

\* Mutant of MarkCorrectStep: a positional match does not consume its
\* target position.
MarkCorrectStepNoUse(st, guess, target, i) ==
    IF i < Len(guess) /\ At(guess, i) = At(target, i)
    THEN [row |-> [st.row EXCEPT ![i] = "Correct"], used |-> st.used]
    ELSE st

\* First step of evaluate_guess: one iteration of `for i in 0..WORD_LENGTH`.
\* st is [row, used]: the status row being written and the consumed flags.
MarkCorrectStep(st, guess, target, i) ==
    IF i < Len(guess) /\ At(guess, i) = At(target, i)
    THEN [row |-> [st.row EXCEPT ![i] = "Correct"],
          used |-> [st.used EXCEPT ![i] = TRUE]]
    ELSE st

RECURSIVE MarkCorrect(_, _, _, _)
\* The first loop, from iteration i on.
MarkCorrect(st, guess, target, i) ==
    IF i >= WORD_LENGTH THEN st
    ELSE MarkCorrect(MarkCorrectStep(st, guess, target, i), guess, target, i + 1)

RECURSIVE FindUnused(_, _, _, _)
\* The inner loop `for j in 0..WORD_LENGTH`: the first j at or after `from`
\* with !used[j] && c == target[j]; WORD_LENGTH when there is none.
FindUnused(used, c, target, from) ==
    IF from >= WORD_LENGTH THEN WORD_LENGTH
    ELSE IF ~used[from] /\ c = At(target, from) THEN from
    ELSE FindUnused(used, c, target, from + 1)

\* Mutant of MarkPresentStep: a Present match does not consume its target
\* position.
MarkPresentStepNoConsume(st, guess, target, i) ==
    IF st.row[i] = "Correct" THEN st
    ELSE LET j == FindUnused(st.used, At(guess, i), target, 0)
         IN  [row |-> [st.row EXCEPT ![i] =
                         IF j < WORD_LENGTH THEN "Present" ELSE "Absent"],
              used |-> st.used]

\* Mutant of MarkPresentStep: a letter found nowhere is left as it was
\* instead of being marked Absent.
MarkPresentStepNoAbsent(st, guess, target, i) ==
    IF st.row[i] = "Correct" THEN st
    ELSE LET j == FindUnused(st.used, At(guess, i), target, 0)
         IN  IF j < WORD_LENGTH
             THEN [row |-> [st.row EXCEPT ![i] = "Present"],
                   used |-> [st.used EXCEPT ![j] = TRUE]]
             ELSE st

\* Second step: one iteration of `for i in 0..guess.len()`.
MarkPresentStep(st, guess, target, i) ==
    IF st.row[i] = "Correct" THEN st
    ELSE LET j == FindUnused(st.used, At(guess, i), target, 0)
         IN  IF j < WORD_LENGTH
             THEN [row |-> [st.row EXCEPT ![i] = "Present"],
                   used |-> [st.used EXCEPT ![j] = TRUE]]
             ELSE [row |-> [st.row EXCEPT ![i] = "Absent"],
                   used |-> st.used]

RECURSIVE MarkPresent(_, _, _, _)
\* The second loop, from iteration i on.
MarkPresent(st, guess, target, i) ==
    IF i >= Len(guess) THEN st
    ELSE MarkPresent(MarkPresentStep(st, guess, target, i), guess, target, i + 1)

RECURSIVE OnePass(_, _, _, _)
\* A single left-to-right loop that settles Correct and Present together.
OnePass(st, guess, target, i) ==
    IF i >= Len(guess) THEN st
    ELSE IF At(guess, i) = At(target, i)
    THEN OnePass([row |-> [st.row EXCEPT ![i] = "Correct"],
                  used |-> [st.used EXCEPT ![i] = TRUE]], guess, target, i + 1)
    ELSE LET j == FindUnused(st.used, At(guess, i), target, 0)
         IN  IF j < WORD_LENGTH
             THEN OnePass([row |-> [st.row EXCEPT ![i] = "Present"],
                           used |-> [st.used EXCEPT ![j] = TRUE]],
                          guess, target, i + 1)
             ELSE OnePass([row |-> [st.row EXCEPT ![i] = "Absent"],
                           used |-> st.used], guess, target, i + 1)

\* Mutant of EvaluateRow: Present matches are taken before all Correct
\* matches are resolved.
EvaluateRowOnePass(row, guess, target) ==
    OnePass([row |-> row, used |-> [j \in Cols |-> FALSE]], guess, target, 0)

\* The body of evaluate_guess past its bounds check: the row of
\* letter_statuses it leaves, starting from the row's present content.
EvaluateRow(row, guess, target) ==
    LET fresh == [row |-> row, used |-> [j \in Cols |-> FALSE]]
        first == MarkCorrect(fresh, guess, target, 0)
    IN  MarkPresent(first, guess, target, 0)

\* evaluate_guess reads target[i] for i < WORD_LENGTH: a shorter target
\* aborts the process.
EvaluatePanics(target) == Len(target) < WORD_LENGTH

\* Mutant of evaluate_guess: the result is written one row too far.
evaluate_guess_next_row ==
    IF current_attempt + 1 >= MAX_ATTEMPTS THEN letter_statuses
    ELSE [letter_statuses EXCEPT ![current_attempt + 1] =
            EvaluateRow(@, attempts[current_attempt], target_word).row]

\* evaluate_guess: letter_statuses after the call.
evaluate_guess ==
    IF current_attempt >= MAX_ATTEMPTS THEN letter_statuses
    ELSE [letter_statuses EXCEPT ![current_attempt] =
            EvaluateRow(@, attempts[current_attempt], target_word).row]

\* ------------------------------------------------------------ operations

\* A panic (index out of bounds) aborts the process; the state is left as
\* it was.
Panic ==
    /\ panicked' = TRUE
    /\ UNCHANGED <<gameVars, running, histVars>>

\* The early `return` of a mutator.
Return == UNCHANGED <<gameVars, panicked, histVars>>

\* Mutant of input_letter: the status is not looked at.
input_letter_any_status(c) ==
    IF current_attempt >= MAX_ATTEMPTS THEN Panic
    ELSE IF Len(attempts[current_attempt]) < WORD_LENGTH
         THEN /\ attempts' = [attempts EXCEPT ![current_attempt] = Append(@, c)]
              /\ UNCHANGED <<letter_statuses, current_attempt, target_word,
                             status, should_quit, message, message_timer,
                             panicked, histVars>>
         ELSE Return

\* Mutant of input_letter: the length test is off by one.
input_letter_one_more(c) ==
    IF status # "Playing" THEN Return
    ELSE IF current_attempt >= MAX_ATTEMPTS THEN Panic
    ELSE IF Len(attempts[current_attempt]) <= WORD_LENGTH
         THEN /\ attempts' = [attempts EXCEPT ![current_attempt] = Append(@, c)]
              /\ UNCHANGED <<letter_statuses, current_attempt, target_word,
                             status, should_quit, message, message_timer,
                             panicked, histVars>>
         ELSE Return

input_letter(c) ==
    IF status # "Playing" THEN Return
    ELSE IF current_attempt >= MAX_ATTEMPTS THEN Panic
    ELSE IF Len(attempts[current_attempt]) < WORD_LENGTH
         THEN /\ attempts' = [attempts EXCEPT ![current_attempt] = Append(@, c)]
              /\ UNCHANGED <<letter_statuses, current_attempt, target_word,
                             status, should_quit, message, message_timer,
                             panicked, histVars>>
         ELSE Return

\* Mutant of delete_letter: the whole attempt is cleared.
delete_letter_clears ==
    IF status # "Playing" THEN Return
    ELSE IF current_attempt >= MAX_ATTEMPTS THEN Panic
    ELSE IF attempts[current_attempt] # <<>>
         THEN /\ attempts' = [attempts EXCEPT ![current_attempt] = <<>>]
              /\ UNCHANGED <<letter_statuses, current_attempt, target_word,
                             status, should_quit, message, message_timer,
                             panicked, histVars>>
         ELSE Return

\* Mutant of delete_letter: the status is not looked at.
delete_letter_any_status ==
    IF current_attempt >= MAX_ATTEMPTS THEN Panic
    ELSE IF attempts[current_attempt] # <<>>
         THEN /\ attempts' = [attempts EXCEPT ![current_attempt] =
                                SubSeq(@, 1, Len(@) - 1)]
              /\ UNCHANGED <<letter_statuses, current_attempt, target_word,
                             status, should_quit, message, message_timer,
                             panicked, histVars>>
         ELSE Return

delete_letter ==
    IF status # "Playing" THEN Return
    ELSE IF current_attempt >= MAX_ATTEMPTS THEN Panic
    ELSE IF attempts[current_attempt] # <<>>
         THEN /\ attempts' = [attempts EXCEPT ![current_attempt] =
                                SubSeq(@, 1, Len(@) - 1)]
              /\ UNCHANGED <<letter_statuses, current_attempt, target_word,
                             status, should_quit, message, message_timer,
                             panicked, histVars>>
         ELSE Return

\* Mutant of IsWin: only the lengths are compared.
IsWinByLength(guess, target) == Len(guess) = Len(target)

\* Mutant of IsWin: the comparison never succeeds (as against a target of
\* another letter case).
IsWinNever(guess, target) == guess = target /\ guess = <<>>

\* Mutant of IsLost: off by one, late.
IsLostLate(next_attempt) == next_attempt > MAX_ATTEMPTS

\* Mutant of IsLost: off by one, early.
IsLostEarly(next_attempt) == next_attempt >= MAX_ATTEMPTS - 1

\* The win check of submit_guess: the attempt collected into a String
\* equals target_word.
IsWin(guess, target) == guess = target

\* The loss check of submit_guess, on the advanced attempt index.
IsLost(next_attempt) == next_attempt >= MAX_ATTEMPTS

submit_guess ==
    IF status # "Playing" THEN Return
    ELSE IF current_attempt >= MAX_ATTEMPTS THEN Panic
    ELSE IF Len(attempts[current_attempt]) # WORD_LENGTH THEN Return
    ELSE IF EvaluatePanics(target_word) THEN Panic
    ELSE /\ letter_statuses' = evaluate_guess
         /\ IF IsWin(attempts[current_attempt], target_word)
            THEN /\ status' = "Won"
                 /\ matched' = TRUE
                 /\ UNCHANGED <<current_attempt, misses, quits, saved, restarted>>
            ELSE /\ current_attempt' = current_attempt + 1
                 /\ misses' = misses + 1
                 /\ status' = IF IsLost(current_attempt + 1)
                              THEN "Lost" ELSE status
                 /\ UNCHANGED <<matched, quits, saved, restarted>>
         /\ UNCHANGED <<attempts, target_word, should_quit, message,
                        message_timer, panicked>>

\* Mutant of quit: the engine asks for the exit itself.
quit_sets_flag ==
    /\ status' = "Quitting"
    /\ should_quit' = TRUE
    /\ quits' = quits + 1
    /\ saved' = saved
    /\ UNCHANGED <<attempts, letter_statuses, current_attempt, target_word,
                   message, message_timer, panicked, misses, matched,
                   restarted>>

quit ==
    /\ status' = "Quitting"
    /\ quits' = quits + 1
    /\ saved' = IF status = "Playing"
                THEN << [attempts        |-> attempts,
                         letter_statuses |-> letter_statuses,
                         current_attempt |-> current_attempt,
                         target_word     |-> target_word] >>
                ELSE saved
    /\ UNCHANGED <<attempts, letter_statuses, current_attempt, target_word,
                   should_quit, message, message_timer, panicked, misses,
                   matched, restarted>>

on_tick ==
    /\ IF message_timer > 0
       THEN /\ message_timer' = message_timer - 1
            /\ message' = IF message_timer - 1 = 0 THEN "None" ELSE message
       ELSE UNCHANGED <<message, message_timer>>
    /\ UNCHANGED <<attempts, letter_statuses, current_attempt, target_word,
                   status, should_quit, panicked, histVars>>

\* --------------------------------------------------------- the keyboard

\* The byte of each ASCII letter: 'A' is 65, 'a' is 97.
AsciiTable ==
    [c \in { AsciiUpper[n] : n \in 1..26 } \cup { AsciiLower[n] : n \in 1..26 } |->
        IF \E n \in 1..26 : AsciiUpper[n] = c
        THEN 64 + (CHOOSE n \in 1..26 : AsciiUpper[n] = c)
        ELSE 96 + (CHOOSE n \in 1..26 : AsciiLower[n] = c)]

\* `*letter as u8` of an ASCII letter; 0 stands for every other char.
AsciiCode(c) == IF c \in DOMAIN AsciiTable THEN AsciiTable[c] ELSE 0

\* char::is_ascii_alphabetic on a letter of an attempt.
is_ascii_alphabetic(c) == AsciiCode(c) # 0

Keys == 0..25

\* Mutant of Upgrade: the latest occurrence always overwrites.
UpgradeOverwrite(old, cur) == cur

\* The match of get_keyboard_status: the key's status after an occurrence
\* of status cur, given its status old so far.
Upgrade(old, cur) ==
    IF old = "Unused" THEN cur
    ELSE IF old = "Absent" /\ cur \in {"Present", "Correct"} THEN cur
    ELSE IF old = "Present" /\ cur = "Correct" THEN cur
    ELSE old

\* The body of the inner loop for letter letter_idx of attempt attempt_idx.
KeyboardLetter(kb, att, ls, attempt_idx, letter_idx) ==
    LET letter == At(att[attempt_idx], letter_idx)
        idx == AsciiCode(letter) - 65
    IN  IF is_ascii_alphabetic(letter) /\ idx < 26
        THEN [kb EXCEPT ![idx] = Upgrade(@, ls[attempt_idx][letter_idx])]
        ELSE kb

RECURSIVE KeyboardAttempt(_, _, _, _, _)
\* The inner loop over the letters of one attempt, from letter_idx on.
KeyboardAttempt(kb, att, ls, attempt_idx, letter_idx) ==
    IF letter_idx >= Len(att[attempt_idx]) THEN kb
    ELSE KeyboardAttempt(KeyboardLetter(kb, att, ls, attempt_idx, letter_idx),
                         att, ls, attempt_idx, letter_idx + 1)

RECURSIVE KeyboardAttempts(_, _, _, _, _)
\* The outer loop `for attempt_idx in 0..max_attempt`, from attempt_idx on.
KeyboardAttempts(kb, att, ls, attempt_idx, max_attempt) ==
    IF attempt_idx >= max_attempt THEN kb
    ELSE KeyboardAttempts(KeyboardAttempt(kb, att, ls, attempt_idx, 0),
                          att, ls, attempt_idx + 1, max_attempt)

\* get_keyboard_status on a game with the given attempts, letter_statuses
\* and current_attempt.
KeyboardOf(att, ls, cur) ==
    KeyboardAttempts([k \in Keys |-> "Unused"], att, ls, 0,
                     Min(cur, MAX_ATTEMPTS))

get_keyboard_status ==
    KeyboardOf(attempts, letter_statuses, current_attempt)

\* ------------------------------------------------------ the player bound

IsPrefix(p, w) == Len(p) <= Len(w) /\ SubSeq(w, 1, Len(p)) = p

\* The player's keystrokes spell words of TypedWords: letter c is typed
\* only where it extends the current attempt towards one of them, or where
\* the engine will not append it at all.
PlayerTypes(c) ==
    IF status # "Playing" \/ current_attempt >= MAX_ATTEMPTS THEN TRUE
    ELSE IF Len(attempts[current_attempt]) >= WORD_LENGTH THEN TRUE
    ELSE \E w \in TypedWords : IsPrefix(Append(attempts[current_attempt], c), w)

\* --------------------------------------------- the engine's operations

Live == running /\ ~panicked

InputLetter ==
    /\ Live
    /\ \E c \in Letters : PlayerTypes(c) /\ input_letter(c)
    /\ UNCHANGED <<running, trip, words_file>>

DeleteLetter ==
    Live /\ delete_letter /\ UNCHANGED <<running, trip, words_file>>

SubmitGuess ==
    Live /\ submit_guess /\ UNCHANGED <<running, trip, words_file>>

Quit ==
    Live /\ quits < MaxQuits /\ quit /\ UNCHANGED <<running, trip, words_file>>

\* The cancellation of main's Esc handler: `game.status = GameStatus::Playing`.
CancelQuit ==
    /\ Live
    /\ status = "Quitting"
    /\ status' = "Playing"
    /\ saved' = <<>>
    /\ UNCHANGED <<attempts, letter_statuses, current_attempt, target_word,
                   should_quit, message, message_timer, running, panicked,
                   misses, matched, quits, restarted>>
    /\ UNCHANGED <<trip, words_file>>

OnTick ==
    Live /\ on_tick /\ UNCHANGED <<running, trip, words_file>>

\* Every public operation of Game, called in any order on one instance.
Next ==
    \/ InputLetter
    \/ DeleteLetter
    \/ SubmitGuess
    \/ Quit
    \/ CancelQuit
    \/ OnTick

Spec == Init /\ [][Next]_vars

\* ------------------------------------------------- the event loop of main

\* Keys the player presses: the letters in either case, and a digit as a
\* key that is not alphabetic.
UpperCase == <<"A","B","C","D","E","O","P","R","S","V">>

LowerCase == <<"a","b","c","d","e","o","p","r","s","v">>

IsAsciiAlphabetic(k) ==
    \E n \in 1..Len(UpperCase) : k = UpperCase[n] \/ k = LowerCase[n]

ToAsciiUppercase(k) ==
    IF \E n \in 1..Len(LowerCase) : k = LowerCase[n]
    THEN UpperCase[CHOOSE n \in 1..Len(LowerCase) : k = LowerCase[n]]
    ELSE k

CharKeys ==
    Letters \cup { LowerCase[n] : n \in { m \in 1..Len(UpperCase) :
                                            UpperCase[m] \in Letters } }
            \cup {"1"}

\* The end of one loop iteration: `if game.should_quit { break; }`.
LoopEnd == running' = ~should_quit' /\ UNCHANGED <<trip, words_file>>

\* KeyCode::Esc.
KeyEsc ==
    /\ Live
    /\ IF status = "Playing"
       THEN quits < MaxQuits /\ quit
       ELSE IF status = "Quitting"
       THEN /\ status' = "Playing"
            /\ saved' = <<>>
            /\ UNCHANGED <<attempts, letter_statuses, current_attempt,
                           target_word, should_quit, message, message_timer,
                           panicked, misses, matched, quits, restarted>>
       ELSE /\ \E t \in ChosenWords(words_file) :
                  /\ attempts' = new(t).attempts
                  /\ letter_statuses' = new(t).letter_statuses
                  /\ current_attempt' = new(t).current_attempt
                  /\ target_word' = new(t).target_word
                  /\ status' = new(t).status
                  /\ should_quit' = new(t).should_quit
                  /\ message' = new(t).message
                  /\ message_timer' = new(t).message_timer
            /\ misses' = 0
            /\ matched' = FALSE
            /\ quits' = 0
            /\ saved' = <<>>
            /\ restarted' = TRUE
            /\ UNCHANGED panicked
    /\ LoopEnd

\* KeyCode::Char(c), and the keys no arm of the match handles.
KeyChar ==
    /\ Live
    /\ \E k \in CharKeys :
          IF IsAsciiAlphabetic(k)
          THEN /\ PlayerTypes(ToAsciiUppercase(k))
               /\ input_letter(ToAsciiUppercase(k))
          ELSE Return
    /\ LoopEnd

\* KeyCode::Backspace.
KeyBackspace == Live /\ delete_letter /\ LoopEnd

\* KeyCode::Enter: submit, and leave the loop when the game is Quitting.
KeyEnter ==
    /\ Live
    /\ submit_guess
    /\ running' = IF status' = "Quitting" THEN FALSE ELSE ~should_quit'
    /\ UNCHANGED <<trip, words_file>>

\* The tick at the end of an iteration without a key.
Tick == Live /\ on_tick /\ LoopEnd

MainNext ==
    \/ KeyEsc
    \/ KeyChar
    \/ KeyBackspace
    \/ KeyEnter
    \/ Tick

\* The program: the game driven by the key events of main's loop.
MainSpec == Init /\ [][MainNext]_vars

\* ------------------------------------------- exhaustive guess evaluation

Alphabet == { <<"A","B","C","D","E">>[k] : k \in 1..Min(NumLetters, 5) }

RECURSIVE WordsOfLength(_)
WordsOfLength(n) ==
    IF n = 0 THEN { <<>> }
    ELSE { Append(w, c) : w \in WordsOfLength(n - 1), c \in Alphabet }

EvalTargets == WordsOfLength(WORD_LENGTH) \cup { <<"A","B","C","D","E">> }

EvalGuesses == WordsOfLength(WORD_LENGTH) \cup { <<"A","A","B","B","C">> }

\* A fresh game with any target of EvalTargets in which the player has
\* typed any full-length guess of EvalGuesses into the first attempt.
EvalInit ==
    /\ \E t \in EvalTargets, g \in EvalGuesses :
          /\ attempts = [r \in Rows |-> IF r = 0 THEN g ELSE <<>>]
          /\ letter_statuses = [r \in Rows |-> [c \in Cols |-> "Unused"]]
          /\ current_attempt = 0
          /\ target_word = t
          /\ words_file = << <<t>> >>
          /\ status = "Playing"
          /\ should_quit = FALSE
          /\ message = "None"
          /\ message_timer = 0
    /\ running = TRUE
    /\ panicked = FALSE
    /\ misses = 0
    /\ matched = FALSE
    /\ quits = 0
    /\ saved = <<>>
    /\ restarted = FALSE
    /\ trip = <<>>

EvalNext == SubmitGuess

EvalSpec == EvalInit /\ [][EvalNext]_vars

\* ------------------------------------------- the program on any word file

\* Word files of every kind: one that cannot be opened, one without a line,
\* one without a line of the word length, a well-formed one, and one with
\* the lines "caf\'e" and "caf\'es" (the e with acute takes two bytes).
WordFiles ==
    { <<>>,
      << <<>> >>,
      << << <<>>, <<"p","r","o">>, <<" ","p","r","o","v","a","s">> >> >>,
      PoolFile,
      << << <<"c","a","f","U+00E9">>, <<"c","a","f","U+00E9","s">> >> >> }

LoadInit == \E file \in WordFiles : Start(file)

\* The program started on any word file of WordFiles.
LoadSpec == LoadInit /\ [][MainNext]_vars

\* --------------------------------- input_letter followed by delete_letter

\* input_letter(c) as the first call of the pair: the game it found is
\* recorded, and only delete_letter can follow.
TripInput ==
    /\ Live
    /\ trip = <<>>
    /\ \E c \in Letters : PlayerTypes(c) /\ input_letter(c)
    /\ trip' = << [attempts        |-> attempts,
                   letter_statuses |-> letter_statuses,
                   current_attempt |-> current_attempt,
                   target_word     |-> target_word,
                   status          |-> status,
                   should_quit     |-> should_quit,
                   message         |-> message,
                   message_timer   |-> message_timer] >>
    /\ UNCHANGED <<running, words_file>>

\* delete_letter() as the second call of the pair.
TripDelete ==
    /\ Live
    /\ trip # <<>>
    /\ delete_letter
    /\ trip' = <<>>
    /\ UNCHANGED <<running, words_file>>

\* The engine's operations in any order, with pairs of consecutive
\* input_letter and delete_letter calls marked among them.
RoundTripNext ==
    \/ trip = <<>> /\ Next
    \/ TripInput
    \/ TripDelete

RoundTripSpec == Init /\ [][RoundTripNext]_vars

\* ================================================================ claims

Count(S) == Cardinality(S)

\* The first attempt has been evaluated by a submission (EvalSpec starts
\* with current_attempt = 0 and makes one submission).
FirstRowEvaluated == current_attempt = 1 \/ status = "Won"

\* Target positions holding c that no Correct match consumes.
FreeInTarget(g, t, c) == { j \in Cols : At(t, j) = c /\ At(g, j) # c }

\* Guess positions before i that hold c and are not Correct.
EarlierMisplaced(g, t, c, i) ==
    { k \in Cols : k < i /\ At(g, k) = c /\ At(t, k) # c }

\* The two-pass feedback of position i, stated without the loops: Correct
\* on a positional match; otherwise Present while the earlier misplaced
\* occurrences of the letter have not used up its free target positions.
TwoPassStatus(g, t, i) ==
    IF At(g, i) = At(t, i) THEN "Correct"
    ELSE IF Count(EarlierMisplaced(g, t, At(g, i), i))
              < Count(FreeInTarget(g, t, At(g, i)))
         THEN "Present"
         ELSE "Absent"

\* The target positions the two passes consume: every positional match,
\* and for each letter the leftmost free target positions, one per Present.
TwoPassConsumed(g, t) ==
    { j \in Cols :
        \/ At(g, j) = At(t, j)
        \/ Count({ m \in FreeInTarget(g, t, At(t, j)) : m < j })
             < Count({ i \in Cols : /\ At(g, i) = At(t, j)
                                    /\ TwoPassStatus(g, t, i) = "Present" }) }

IsExampleABCDE ==
    /\ target_word = <<"A","B","C","D","E">>
    /\ attempts[0] = <<"A","A","B","B","C">>
    /\ FirstRowEvaluated

\* C2 as stated: target ABCDE, guess AABBC evaluates to Correct, Absent,
\* Present, Absent, Correct.
C2_Original ==
    IsExampleABCDE =>
        letter_statuses[0] =
            [c \in Cols |-> At(<<"Correct","Absent","Present","Absent","Correct">>, c)]

\* C2 amended: target ABCDE, guess AABBC evaluates to Correct, Absent,
\* Present, Absent, Present (the C at position 4 faces E, and the target's
\* C at position 2 is unconsumed).
C2_Example ==
    IsExampleABCDE =>
        letter_statuses[0] =
            [c \in Cols |-> At(<<"Correct","Absent","Present","Absent","Present">>, c)]

C2_Witness == IsExampleABCDE /\ current_attempt = 1 /\ status = "Playing"

\* Positions of the evaluated first row that hold c and are Correct or Present.
Credited(c) ==
    { i \in Cols : /\ At(attempts[0], i) = c
                   /\ letter_statuses[0][i] \in {"Correct", "Present"} }

Occurrences(w, c) == { j \in Cols : At(w, j) = c }

Accepted ==
    /\ status = "Playing"
    /\ current_attempt < MAX_ATTEMPTS
    /\ Len(attempts[current_attempt]) = WORD_LENGTH

\* C4: an accepted submit_guess leaves current_attempt unchanged and sets
\* status Won when the attempt equals the target; otherwise it increases
\* current_attempt by exactly 1 and status becomes Lost exactly when the
\* new value equals MAX_ATTEMPTS, else stays Playing.
C4_SubmitOutcome ==
    [][ (SubmitGuess /\ Accepted) =>
          IF attempts[current_attempt] = target_word
          THEN current_attempt' = current_attempt /\ status' = "Won"
          ELSE /\ current_attempt' = current_attempt + 1
               /\ status' = IF current_attempt' = MAX_ATTEMPTS
                            THEN "Lost" ELSE "Playing" ]_vars

\* A win after earlier misses: both outcomes of submit_guess have happened.
C4_Witness ==
    status = "Won" /\ misses >= 1 /\ current_attempt = misses /\ quits = 0

\* C5: from a fresh game, under input_letter, delete_letter, on_tick and
\* submit_guess only (quit never called), after exactly MAX_ATTEMPTS
\* accepted submissions none of which matched, status is Lost and
\* current_attempt is MAX_ATTEMPTS; with fewer, status is still Playing.
C5_LostAfterMaxAttempts ==
    (quits = 0 /\ ~matched) =>
        /\ misses = MAX_ATTEMPTS => (status = "Lost" /\ current_attempt = MAX_ATTEMPTS)
        /\ misses < MAX_ATTEMPTS => status = "Playing"

C5_Witness ==
    quits = 0 /\ ~matched /\ misses = MAX_ATTEMPTS /\ status = "Lost"

\* C6 as stated: under any sequence of input_letter, delete_letter,
\* submit_guess, quit, cancel-quit and on_tick, current_attempt stays in
\* 0..MAX_ATTEMPTS, is below MAX_ATTEMPTS whenever status is Playing, and
\* no operation indexes out of bounds.
C6_NoOutOfBounds ==
    /\ current_attempt \in 0..MAX_ATTEMPTS
    /\ status = "Playing" => current_attempt < MAX_ATTEMPTS
    /\ ~panicked

\* C7 as stated: Won and Lost are terminal: no engine operation on the same
\* Game changes status once it is Won or Lost (quit() being a no-op there).
C7_TerminalStatus ==
    [][ (status \in {"Won", "Lost"}) => (status' = status) ]_vars

\* C8: status Won implies attempts[current_attempt], the attempt submitted
\* last, equals target_word letter for letter.
C8_WonMatchesTarget ==
    status = "Won" =>
        /\ current_attempt < MAX_ATTEMPTS
        /\ Len(attempts[current_attempt]) = Len(target_word)
        /\ \A k \in 1..Len(target_word) :
              attempts[current_attempt][k] = target_word[k]

\* The game is won on the last attempt.
C8_Witness == status = "Won" /\ current_attempt = MAX_ATTEMPTS - 1

\* C9: status Lost implies current_attempt = MAX_ATTEMPTS and no attempt
\* equals target_word.
C9_LostNeverMatched ==
    status = "Lost" =>
        /\ current_attempt = MAX_ATTEMPTS
        /\ \A i \in Rows : attempts[i] # target_word

C9_Witness ==
    status = "Lost" /\ \A i \in Rows : Len(attempts[i]) = WORD_LENGTH

AllUnused(i) == \A c \in Cols : letter_statuses[i][c] = "Unused"

\* C10 as stated: every row i >= current_attempt of letter_statuses is all
\* Unused.
C10_Original ==
    \A i \in Rows : i >= current_attempt => AllUnused(i)

\* C10 amended: every row i > current_attempt is all Unused, and row
\* current_attempt is all Unused until a winning submission is accepted
\* (which evaluates the row and does not advance current_attempt).
C10_RowsAheadUnused ==
    \A i \in Rows :
        /\ i > current_attempt => AllUnused(i)
        /\ (i = current_attempt /\ ~matched) => AllUnused(i)
        /\ (i = current_attempt /\ status = "Won") =>
              \A c \in Cols : letter_statuses[i][c] # "Unused"

\* A won game: the row at current_attempt is evaluated, the rows after it
\* are still Unused.
C10_Witness ==
    /\ status = "Won"
    /\ current_attempt < MAX_ATTEMPTS - 1
    /\ ~AllUnused(current_attempt)
    /\ AllUnused(current_attempt + 1)

\* C11: every row i < current_attempt holds an attempt of exactly
\* WORD_LENGTH letters and a status row without an Unused cell.
C11_RowsBehindFinal ==
    \A i \in Rows :
        i < current_attempt =>
            /\ Len(attempts[i]) = WORD_LENGTH
            /\ \A c \in Cols : letter_statuses[i][c] # "Unused"

\* Two submitted rows, one of them holding an Absent cell.
C11_Witness ==
    /\ current_attempt >= 2
    /\ \E i \in Rows, c \in Cols :
          i < current_attempt /\ letter_statuses[i][c] = "Absent"

\* Row i has been evaluated by a submission.
Evaluated(i) == \E c \in Cols : letter_statuses[i][c] # "Unused"

\* C12 as stated: once a cell of row i is not Unused, no operation changes
\* the row's cells, nor the letters of the submitted attempt i.
C12_WriteOnce ==
    [][ \A i \in Rows :
          Evaluated(i) =>
              /\ letter_statuses'[i] = letter_statuses[i]
              /\ attempts'[i] = attempts[i] ]_vars

\* The feedback order Unused < Absent < Present < Correct.
Strength(s) ==
    CASE s = "Unused" -> 0
      [] s = "Absent" -> 1
      [] s = "Present" -> 2
      [] s = "Correct" -> 3

\* The statuses of the occurrences of the letter of key k in the rows a
\* submission has evaluated.
OccurrenceStatuses(k) ==
    { letter_statuses[i][j] :
        <<i, j>> \in { p \in Rows \X Cols :
                         /\ Evaluated(p[1])
                         /\ p[2] < Len(attempts[p[1]])
                         /\ At(attempts[p[1]], p[2]) = AsciiUpper[k + 1] } }

Strongest(S) ==
    IF S = {} THEN "Unused"
    ELSE CHOOSE s \in S : \A o \in S : Strength(o) <= Strength(s)

\* C13 as stated: in every reachable state, whatever the status, each key
\* of keyboard_status holds the strongest status among the occurrences of
\* its letter in the rows a submission has evaluated, Unused if there are
\* none.
C13_KeyboardStrongest ==
    \A kb \in {get_keyboard_status} :
        \A k \in Keys : kb[k] = Strongest(OccurrenceStatuses(k))

\* C14: keyboard_status never regresses: over every step on one Game, each
\* key's status after the step is at least its status before it.
C14_KeyboardMonotone ==
    [][ \A prior \in {get_keyboard_status} :
          \A after \in {KeyboardOf(attempts', letter_statuses', current_attempt')} :
             \A k \in Keys : Strength(after[k]) >= Strength(prior[k]) ]_vars

\* A key whose status the latest finalized attempt has raised from Absent
\* or Present.
C14_Witness ==
    /\ current_attempt >= 2
    /\ \E prior \in {KeyboardOf(attempts, letter_statuses, current_attempt - 1)} :
          \E after \in {get_keyboard_status} :
             \E k \in Keys :
                /\ prior[k] \in {"Absent", "Present"}
                /\ Strength(prior[k]) < Strength(after[k])

\* C15: whenever status is Won, Lost or Quitting, a call of input_letter(c),
\* delete_letter() or submit_guess() leaves the whole game state (attempts,
\* letter_statuses, current_attempt, status, target_word, message and the
\* other fields) unchanged.
C15_WrongStateRejected ==
    [][ (status # "Playing" /\ (InputLetter \/ DeleteLetter \/ SubmitGuess))
            => UNCHANGED gameVars ]_vars

\* A game put in Quitting with a complete, not yet submitted attempt and
\* room for more: each of the three calls is made on it and, but for the
\* status, submit_guess would accept the attempt.
C15_Witness ==
    /\ Live
    /\ status = "Quitting"
    /\ current_attempt \in 1..(MAX_ATTEMPTS - 1)
    /\ Len(attempts[current_attempt]) = WORD_LENGTH
    /\ \A c \in Cols : letter_statuses[current_attempt][c] = "Unused"

\* The three calls the engine rejects while Playing, on the current attempt.
RejectedWhilePlaying ==
    /\ status = "Playing"
    /\ current_attempt < MAX_ATTEMPTS
    /\ \/ Len(attempts[current_attempt]) < WORD_LENGTH /\ SubmitGuess
       \/ Len(attempts[current_attempt]) = WORD_LENGTH /\ InputLetter
       \/ attempts[current_attempt] = <<>> /\ DeleteLetter

\* C16: while status is Playing, submit_guess on an attempt shorter than
\* WORD_LENGTH, input_letter on an attempt of WORD_LENGTH letters and
\* delete_letter on an empty attempt leave the whole game state unchanged,
\* and every attempt has at most WORD_LENGTH letters in every reachable state.
C16_RejectedActions ==
    /\ [](\A i \in Rows : Len(attempts[i]) \in 0..WORD_LENGTH)
    /\ [][ RejectedWhilePlaying => UNCHANGED gameVars ]_vars

\* A Playing game past its first attempt whose current attempt is complete:
\* a further input_letter is the rejected call.
C16_Witness ==
    /\ Live
    /\ status = "Playing"
    /\ current_attempt \in 1..(MAX_ATTEMPTS - 1)
    /\ Len(attempts[current_attempt]) = WORD_LENGTH
    /\ attempts[current_attempt - 1] # attempts[current_attempt]

\* C20: after quit() was called on a Playing game, whatever input_letter,
\* delete_letter, submit_guess and on_tick calls are made while the status is
\* Quitting, the status stays Quitting until the cancellation, and the
\* cancellation gives back exactly the attempts, letter_statuses,
\* current_attempt and target_word that quit() found, with status Playing.
C20_QuitRoundTrip ==
    /\ [](saved # <<>> => status = "Quitting")
    /\ [][ (saved # <<>> /\ status' = "Playing") =>
             [attempts        |-> attempts',
              letter_statuses |-> letter_statuses',
              current_attempt |-> current_attempt',
              target_word     |-> target_word'] = saved[1] ]_vars

\* A game that was quit while a guess was in progress after a first miss,
\* and is Playing again with that guess in progress.
C20_Witness ==
    /\ Live
    /\ quits >= 1
    /\ saved = <<>>
    /\ status = "Playing"
    /\ ~matched
    /\ current_attempt \in 1..(MAX_ATTEMPTS - 1)
    /\ Len(attempts[current_attempt]) \in 1..(WORD_LENGTH - 1)

\* The state Game::new returns, whatever word it drew.
Fresh ==
    /\ ~panicked
    /\ status = "Playing"
    /\ current_attempt = 0
    /\ DOMAIN attempts = Rows
    /\ \A i \in Rows : attempts[i] = <<>> /\ AllUnused(i)
    /\ message = "None"
    /\ target_word \in ChosenWords(words_file)
    /\ load_words_from_file(words_file) = <<>> => target_word = FallbackWord

\* C18: every construction of a Game succeeds and yields status Playing,
\* current_attempt 0, MAX_ATTEMPTS empty attempts, an all-Unused grid and no
\* message, with the built-in default word as target when the word source
\* yields no word; so does the restart of main (Esc while Won or Lost),
\* whatever the state of the game it replaces.
C18_FreshGame ==
    /\ Fresh
    /\ [][ (status \in {"Won", "Lost"} /\ KeyEsc) => Fresh' ]_vars

\* A game that main constructed on restart while the word file cannot be
\* opened.
C18_Witness ==
    /\ restarted
    /\ words_file = <<>>
    /\ Fresh
    /\ target_word = FallbackWord

\* C19: for every content of the word file, also with lines of multi-byte
\* letters, every word the loader returns has exactly WORD_LENGTH chars, so
\* that target_word has exactly WORD_LENGTH letters and evaluate_guess reads
\* target[i] for every i in 0..WORD_LENGTH without going out of bounds.
C19_LoadedWordLength ==
    /\ \A word \in ChosenWords(words_file) : Len(word) = WORD_LENGTH
    /\ Len(target_word) = WORD_LENGTH
    /\ ~panicked

\* The game as a record of its fields.
GameNow ==
    [attempts        |-> attempts,
     letter_statuses |-> letter_statuses,
     current_attempt |-> current_attempt,
     target_word     |-> target_word,
     status          |-> status,
     should_quit     |-> should_quit,
     message         |-> message,
     message_timer   |-> message_timer]

\* C17 as stated: from every reachable state and for every letter c,
\* input_letter(c) followed at once by delete_letter() leaves the game
\* exactly as it was before the two calls.
C17_Original ==
    [][ (trip # <<>> /\ TripDelete) => GameNow' = trip[1] ]_vars

\* input_letter appends to the game g: it is Playing and its current
\* attempt has fewer than WORD_LENGTH letters.
HasRoom(g) ==
    /\ g.status = "Playing"
    /\ g.current_attempt < MAX_ATTEMPTS
    /\ Len(g.attempts[g.current_attempt]) < WORD_LENGTH

\* C17: input_letter(c) followed at once by delete_letter() leaves the game
\* exactly as it was before the two calls when the status is not Playing or
\* the current attempt has fewer than WORD_LENGTH letters; on a Playing
\* game with a full current attempt the pair removes the attempt's last
\* letter.
C17_RoundTrip ==
    [][ (trip # <<>> /\ TripDelete) =>
            IF HasRoom(trip[1]) \/ trip[1].status # "Playing"
            THEN GameNow' = trip[1]
            ELSE /\ GameNow' # trip[1]
                 /\ Len(attempts'[current_attempt]) = WORD_LENGTH - 1 ]_vars

\* Between the two calls, on a second attempt: input_letter has appended
\* a letter to a non-empty attempt and delete_letter is to follow.
C17_Witness ==
    /\ Live
    /\ trip # <<>>
    /\ HasRoom(trip[1])
    /\ trip[1].current_attempt >= 1
    /\ trip[1].attempts[current_attempt] # <<>>
    /\ attempts # trip[1].attempts

C22_WonIffAllCorrect ==
    [][ (Accepted /\ SubmitGuess) =>
            (status' = "Won" <=>
                \A c \in Cols : letter_statuses'[current_attempt][c] = "Correct")
      ]_vars

====
